---- MODULE Spec2Model ----
(***************************************************************************)
(* Model of meal_max/models/battle_model.py: the BattleModel class (the    *)
(* "battle resolver"), its roster `combatants`, and the two collaborators  *)
(* it calls: get_random (the random source) and update_meal_stats (the     *)
(* stats sink of kitchen_model).                                           *)
(*                                                                         *)
(* Every method call is one atomic action (the program is single-threaded  *)
(* and synchronous).  The record `last` describes the most recent call:    *)
(* which method, its argument, how it ended, what it returned, the roster  *)
(* it started from and the ordered trace of the steps it performed.        *)
(*                                                                         *)
(* Numbers: prices and scores are integers.  A random draw r in [0,1) and  *)
(* the normalised delta |score_1 - score_2| / 100 are rationals, written   *)
(* as pairs <<num, den>> and compared exactly by cross-multiplication.     *)
(***************************************************************************)
EXTENDS Integers, Sequences, FiniteSets, TLC

VARIABLES combatants, db, last

vars == <<combatants, db, last>>

(***************************************************************************)
(* Bounds of the model.                                                    *)
(***************************************************************************)
\* battle() is explored while fewer than MaxBattles results are recorded.
MaxBattles == 3
\* The price of the extra input of get_battle_score that varies the price.
MaxPrice == 2

(***************************************************************************)
(* Entities.  Meal(id, meal, cuisine, price, difficulty); the first two    *)
(* are the fixtures of tests/test_battle_model.py.                         *)
(***************************************************************************)
Meal(i, m, c, p, d) ==
    [id |-> i, meal |-> m, cuisine |-> c, price |-> p, difficulty |-> d]

sample_meal1 == Meal(1, "Meal 1", "Cuisine 1", 1, "LOW")

sample_meal2 == Meal(2, "Meal 2", "Cuisine 2", 2, "HIGH")

\* A third entity whose score is more than 100 away from both fixtures.
sample_meal3 == Meal(3, "Meal 3", "Thai", 30, "MED")

Meals == {sample_meal1, sample_meal2, sample_meal3}

MealIds == {m.id : m \in Meals}

\* Inputs given to get_battle_score on its own: the roster entities and
\* the entities that differ from sample_meal1 in one part: id and name,
\* cuisine of the same length, cuisine of another length, price, difficulty.
ScoreInputs ==
    Meals \cup
    { Meal(2, "Meal 2", "Cuisine 1", 1, "LOW"),
      Meal(1, "Meal 1", "Cuisine 2", 1, "LOW"),
      Meal(1, "Meal 1", "Thai", 1, "LOW"),
      Meal(1, "Meal 1", "Cuisine 1", MaxPrice, "LOW"),
      Meal(1, "Meal 1", "Cuisine 1", 1, "MED"),
      Meal(1, "Meal 1", "Cuisine 1", 1, "HIGH") }

\* The values get_random() returns here, each a rational <<num, den>> of
\* [0,1): 0, 0.10, 0.11, 0.12, 0.50 and 0.99.
RandomDraws == {<<0, 1>>, <<1, 10>>, <<11, 100>>, <<3, 25>>, <<1, 2>>,
                <<99, 100>>}

\* One call of get_random(): it returns a draw, or it raises.
Returns(r) == [raises |-> FALSE, value |-> <<r>>]

RandomFailure == [raises |-> TRUE, value |-> <<>>]

RandomOutcomes == {Returns(r) : r \in RandomDraws} \cup {RandomFailure}

NoMeal == [id |-> 0, meal |-> "", cuisine |-> "", price |-> 0, difficulty |-> ""]

\* The draw of a call is <<r>>, or <<>> when the call obtained none.
NoDraw == <<>>

NoValue == "none"

(***************************************************************************)
(* The trace of a call: the ordered steps the method performed.            *)
(***************************************************************************)
Event(e, i, w) == [ev |-> e, id |-> i, what |-> w]

\* the len(self.combatants) test that opens battle() and prep_combatant()
EvCheck == Event("check", 0, "len")

EvScore(m) == Event("score", m.id, "get_battle_score")

EvRandom == Event("random", 0, "get_random")

\* which branch of `if delta > random_number` ran: who == "combatant_1" or
\* "combatant_2" is the winner.
EvDecide(m, who) == Event("decide", m.id, who)

EvStats(i, result) == Event("stats", i, result)

EvRemove(m) == Event("remove", m.id, "loser")

IsStats(e) == e.ev = "stats"

IsRandom(e) == e.ev = "random"

IsDecide(e) == e.ev = "decide"

\* The calls made to the stats sink during the call, in order.
Reports(trace) == SelectSeq(trace, IsStats)

\* How many times the random source was asked during the call.
Draws(trace) == Len(SelectSeq(trace, IsRandom))

\* The branches of the decision taken during the call, in order.
Decisions(trace) == SelectSeq(trace, IsDecide)

(***************************************************************************)
(* Pure helpers.                                                           *)
(***************************************************************************)
Abs(x) == IF x < 0 THEN -x ELSE x

\* Exact x > y for rationals <<num, den>> with positive denominators.
RatGt(x, y) == x[1] * y[2] > y[1] * x[2]

\* list.remove(x): drops the first element equal to x.
Remove(seq, x) ==
    LET i == CHOOSE k \in 1..Len(seq) :
                 seq[k] = x /\ \A j \in 1..(k - 1) : seq[j] # x
    IN  [k \in 1..(Len(seq) - 1) |-> IF k < i THEN seq[k] ELSE seq[k + 1]]

\* Variant of difficulty_modifier: {"HIGH": 3, "MED": 2, "LOW": 1}.
difficulty_modifier_reversed(d) ==
    CASE d = "HIGH" -> 3
      [] d = "MED"  -> 2
      [] d = "LOW"  -> 1

\* difficulty_modifier = {"HIGH": 1, "MED": 2, "LOW": 3}
difficulty_modifier(d) ==
    CASE d = "HIGH" -> 1
      [] d = "MED"  -> 2
      [] d = "LOW"  -> 3

\* score = (price * len(cuisine)) - difficulty_modifier[difficulty]
get_battle_score(combatant) ==
    (combatant.price * Len(combatant.cuisine))
        - difficulty_modifier(combatant.difficulty)

\* Variant of Delta: (score_1 - score_2) / 100, the abs() left out.
Delta_signed(score_1, score_2) == <<score_1 - score_2, 100>>

\* Variant of Delta: abs(score_1 - score_2) / 10.
Delta_tenth(score_1, score_2) == <<Abs(score_1 - score_2), 10>>

\* delta = abs(score_1 - score_2) / 100
Delta(score_1, score_2) == <<Abs(score_1 - score_2), 100>>

\* Variant of FirstWins: delta >= random_number.
FirstWins_orEqual(delta, random_number) == ~RatGt(random_number, delta)

\* if delta > random_number: combatant_1 wins, else combatant_2 wins
FirstWins(delta, random_number) == RatGt(delta, random_number)

(***************************************************************************)
(* The stats sink, kitchen_model.update_meal_stats(meal_id, result), and   *)
(* its store: per entity id, the soft-delete flag and the counters.        *)
(***************************************************************************)
StatsRaises(d, meal_id) == meal_id \notin DOMAIN d \/ d[meal_id].deleted

update_meal_stats(d, meal_id, result) ==
    [d EXCEPT ![meal_id] =
        [@ EXCEPT !.battles = @ + 1,
                  !.wins = IF result = "win" THEN @ + 1 ELSE @]]

TotalBattles(d) == LET Sum[S \in SUBSET MealIds] ==
                           IF S = {} THEN 0
                           ELSE LET i == CHOOSE x \in S : TRUE
                                IN  d[i].battles + Sum[S \ {i}]
                   IN  Sum[MealIds]

(***************************************************************************)
(* How a call ends.                                                        *)
(***************************************************************************)
Ok == "ok"

\* raise ValueError("Combatant list is full, cannot add more combatants.")
CapacityError == "Combatant list is full, cannot add more combatants."

\* raise ValueError("Two combatants must be prepped for a battle.")
InsufficientCombatantsError == "Two combatants must be prepped for a battle."

\* get_random() raised; battle() has no handler, so the error leaves it.
RandomSourceError == "get_random raised"

\* update_meal_stats() raised; battle() has no handler either.
StatsSinkError == "update_meal_stats raised"

\* What a method leaves behind: the roster, the store, how it ended, the
\* name it returned and its trace.
Result(c, d, outcome, ret, trace) ==
    [combatants |-> c, db |-> d, outcome |-> outcome, ret |-> ret,
     trace |-> trace]

\* The record of a call: ret is the name battle() returns, score the number
\* get_battle_score() returns, pre and predb the roster and the store the
\* call started from, r the draw it obtained.
Call(op, arg, outcome, ret, score, pre, predb, r, trace) ==
    [op |-> op, arg |-> arg, outcome |-> outcome, ret |-> ret,
     score |-> score, pre |-> pre, predb |-> predb, r |-> r, trace |-> trace]

(***************************************************************************)
(* BattleModel.battle(), in the order of its statements.                   *)
(***************************************************************************)
\* Variant of not_enough: the random source is asked before the size test.
not_enough_drawsFirst(c, d, rnd) ==
    Result(c, d, InsufficientCombatantsError, NoValue, <<EvRandom, EvCheck>>)

\* if len(self.combatants) < 2: raise ValueError(...)
not_enough(c, d, rnd) ==
    Result(c, d, InsufficientCombatantsError, NoValue, <<EvCheck>>)

\* if delta > random_number: winner, loser = combatant_1, combatant_2
\* else:                     winner, loser = combatant_2, combatant_1
decide(combatant_1, combatant_2, delta, random_number) ==
    IF FirstWins(delta, random_number)
    THEN [winner |-> combatant_1, loser |-> combatant_2, who |-> "combatant_1"]
    ELSE [winner |-> combatant_2, loser |-> combatant_1, who |-> "combatant_2"]

\* Variant of report_and_remove: the two results are reported the wrong way
\* round, update_meal_stats(loser.id, 'win') and (winner.id, 'loss').
report_and_remove_swapped(c, d, winner, loser, t) ==
    LET t2 == Append(t, EvStats(loser.id, "win"))
        t3 == Append(t2, EvStats(winner.id, "loss"))
    IN  IF StatsRaises(d, loser.id)
        THEN Result(c, d, StatsSinkError, NoValue, t2)
        ELSE LET d1 == update_meal_stats(d, loser.id, "win")
             IN  IF StatsRaises(d1, winner.id)
                 THEN Result(c, d1, StatsSinkError, NoValue, t3)
                 ELSE Result(Remove(c, loser),
                             update_meal_stats(d1, winner.id, "loss"),
                             Ok, winner.meal, Append(t3, EvRemove(loser)))

\* Variant of report_and_remove: self.combatants.remove(loser) comes before
\* the two update_meal_stats calls.
report_and_remove_removeFirst(c, d, winner, loser, t) ==
    LET c1 == Remove(c, loser)
        t1 == Append(t, EvRemove(loser))
        t2 == Append(t1, EvStats(winner.id, "win"))
        t3 == Append(t2, EvStats(loser.id, "loss"))
    IN  IF StatsRaises(d, winner.id)
        THEN Result(c1, d, StatsSinkError, NoValue, t2)
        ELSE LET d1 == update_meal_stats(d, winner.id, "win")
             IN  IF StatsRaises(d1, loser.id)
                 THEN Result(c1, d1, StatsSinkError, NoValue, t3)
                 ELSE Result(c1, update_meal_stats(d1, loser.id, "loss"),
                             Ok, winner.meal, t3)

\* Variant of report_and_remove: self.combatants.remove(winner).
report_and_remove_winner(c, d, winner, loser, t) ==
    LET t2 == Append(t, EvStats(winner.id, "win"))
        t3 == Append(t2, EvStats(loser.id, "loss"))
    IN  IF StatsRaises(d, winner.id)
        THEN Result(c, d, StatsSinkError, NoValue, t2)
        ELSE LET d1 == update_meal_stats(d, winner.id, "win")
             IN  IF StatsRaises(d1, loser.id)
                 THEN Result(c, d1, StatsSinkError, NoValue, t3)
                 ELSE Result(Remove(c, winner),
                             update_meal_stats(d1, loser.id, "loss"),
                             Ok, winner.meal, Append(t3, EvRemove(winner)))

\* update_meal_stats(winner.id, 'win'); update_meal_stats(loser.id, 'loss');
\* self.combatants.remove(loser); return winner.meal
\* t is the trace of the call so far.  Either update may raise; the first
\* one has then already been committed by the store.
report_and_remove(c, d, winner, loser, t) ==
    LET t2 == Append(t, EvStats(winner.id, "win"))
        t3 == Append(t2, EvStats(loser.id, "loss"))
    IN  IF StatsRaises(d, winner.id)
        THEN Result(c, d, StatsSinkError, NoValue, t2)
        ELSE LET d1 == update_meal_stats(d, winner.id, "win")
             IN  IF StatsRaises(d1, loser.id)
                 THEN Result(c, d1, StatsSinkError, NoValue, t3)
                 ELSE Result(Remove(c, loser),
                             update_meal_stats(d1, loser.id, "loss"),
                             Ok, winner.meal, Append(t3, EvRemove(loser)))

\* Variant of resolve: when get_random() raises it is called a second time
\* before the error is let through.
resolve_retry(c, d, rnd) ==
    LET combatant_1 == c[1]
        combatant_2 == c[2]
        score_1 == get_battle_score(combatant_1)
        score_2 == get_battle_score(combatant_2)
        delta == Delta(score_1, score_2)
        t1 == <<EvCheck, EvScore(combatant_1), EvScore(combatant_2), EvRandom>>
    IN  IF rnd.raises
        THEN Result(c, d, RandomSourceError, NoValue, Append(t1, EvRandom))
        ELSE LET dec == decide(combatant_1, combatant_2, delta, rnd.value[1])
             IN  report_and_remove(c, d, dec.winner, dec.loser,
                                   Append(t1, EvDecide(dec.winner, dec.who)))

\* The body of battle() once two combatants are there.
resolve(c, d, rnd) ==
    LET combatant_1 == c[1]
        combatant_2 == c[2]
        score_1 == get_battle_score(combatant_1)
        score_2 == get_battle_score(combatant_2)
        delta == Delta(score_1, score_2)
        t1 == <<EvCheck, EvScore(combatant_1), EvScore(combatant_2), EvRandom>>
    IN  IF rnd.raises
        THEN Result(c, d, RandomSourceError, NoValue, t1)
        ELSE LET dec == decide(combatant_1, combatant_2, delta, rnd.value[1])
             IN  report_and_remove(c, d, dec.winner, dec.loser,
                                   Append(t1, EvDecide(dec.winner, dec.who)))

battle(c, d, rnd) ==
    IF Len(c) < 2 THEN not_enough(c, d, rnd) ELSE resolve(c, d, rnd)

(***************************************************************************)
(* BattleModel.prep_combatant(combatant_data)                              *)
(***************************************************************************)
\* Variant of prep_combatant: the capacity test is `> 2`.
prep_combatant_offByOne(c, d, combatant_data) ==
    IF Len(c) > 2
    THEN Result(c, d, CapacityError, NoValue, <<EvCheck>>)
    ELSE Result(Append(c, combatant_data), d, Ok, NoValue, <<EvCheck>>)

\* Variant of prep_combatant: an entity whose id is already in the roster
\* is rejected ("Meal with ID ... already exists in combatants").
prep_combatant_dedup(c, d, combatant_data) ==
    IF Len(c) >= 2
    THEN Result(c, d, CapacityError, NoValue, <<EvCheck>>)
    ELSE IF \E i \in 1..Len(c) : c[i].id = combatant_data.id
         THEN Result(c, d, "Meal already exists in combatants", NoValue,
                     <<EvCheck>>)
         ELSE Result(Append(c, combatant_data), d, Ok, NoValue, <<EvCheck>>)

\* Variant of prep_combatant: self.combatants.insert(0, combatant_data).
prep_combatant_front(c, d, combatant_data) ==
    IF Len(c) >= 2
    THEN Result(c, d, CapacityError, NoValue, <<EvCheck>>)
    ELSE Result(<<combatant_data>> \o c, d, Ok, NoValue, <<EvCheck>>)

prep_combatant(c, d, combatant_data) ==
    IF Len(c) >= 2
    THEN Result(c, d, CapacityError, NoValue, <<EvCheck>>)
    ELSE Result(Append(c, combatant_data), d, Ok, NoValue, <<EvCheck>>)

\* Variant of clear_combatants: self.combatants.pop() when not empty.
clear_combatants_pop(c) ==
    IF c = <<>> THEN c ELSE SubSeq(c, 1, Len(c) - 1)

\* self.combatants.clear()
clear_combatants(c) == <<>>

(***************************************************************************)
(* State machine.                                                          *)
(***************************************************************************)
\* __init__: self.combatants = [].  The store holds every entity, none
\* deleted, with no battle recorded.
Init ==
    /\ combatants = <<>>
    /\ db = [i \in MealIds |-> [deleted |-> FALSE, battles |-> 0, wins |-> 0]]
    /\ last = Call("init", NoMeal, Ok, NoValue, 0, <<>>, db, NoDraw, <<>>)

Prep(m) ==
    LET res == prep_combatant(combatants, db, m)
    IN  /\ combatants' = res.combatants
        /\ db' = res.db
        /\ last' = Call("prep", m, res.outcome, res.ret, 0, combatants, db,
                        NoDraw, res.trace)

Battle(rnd) ==
    LET res == battle(combatants, db, rnd)
    IN  /\ TotalBattles(db) < MaxBattles
        /\ combatants' = res.combatants
        /\ db' = res.db
        /\ last' = Call("battle", NoMeal, res.outcome, res.ret, 0, combatants,
                        db, IF Draws(res.trace) = 0 THEN NoDraw ELSE rnd.value,
                        res.trace)

Clear ==
    /\ combatants' = clear_combatants(combatants)
    /\ last' = Call("clear", NoMeal, Ok, NoValue, 0, combatants, db, NoDraw,
                    <<>>)
    /\ UNCHANGED db

GetBattleScore(m) ==
    /\ last' = Call("score", m, Ok, NoValue, get_battle_score(m), combatants,
                    db, NoDraw, <<>>)
    /\ UNCHANGED <<combatants, db>>

\* kitchen_model.delete_meal(meal_id): soft delete, done by another caller
\* of the store between two calls of the resolver.
DeleteMeal(i) ==
    /\ ~db[i].deleted
    /\ db' = [db EXCEPT ![i].deleted = TRUE]
    /\ last' = Call("delete", NoMeal, Ok, NoValue, 0, combatants, db, NoDraw,
                    <<>>)
    /\ UNCHANGED combatants

Next ==
    \/ \E m \in Meals : Prep(m)
    \/ \E rnd \in RandomOutcomes : Battle(rnd)
    \/ Clear
    \/ \E m \in ScoreInputs : GetBattleScore(m)
    \/ \E i \in MealIds : DeleteMeal(i)

Spec == Init /\ [][Next]_vars

(***************************************************************************)
(* Properties.                                                             *)
(***************************************************************************)
LastIs(op) == last.op = op

BattleOk == LastIs("battle") /\ last.outcome = Ok

\* C1: in every reachable state the roster holds 0, 1 or 2 entities.
C1_RosterAtMostTwo == Len(combatants) \in {0, 1, 2}

\* A third prep has just been rejected and the roster still holds two.
C1_Witness ==
    /\ LastIs("prep") /\ last.outcome = CapacityError
    /\ Len(combatants) = 2

\* C2: prep on a roster of two fails with the capacity error and leaves the
\* roster as it was; prep on a roster of zero or one succeeds and appends
\* the entity at the end.
C2_PrepCapacity ==
    LastIs("prep") =>
        IF Len(last.pre) = 2
        THEN last.outcome = CapacityError /\ combatants = last.pre
        ELSE last.outcome = Ok /\ combatants = Append(last.pre, last.arg)

\* prep A, prep B, prep C: the third is rejected, the roster is still [A, B].
C2_Witness ==
    /\ LastIs("prep") /\ last.arg = sample_meal3
    /\ last.outcome = CapacityError
    /\ last.pre = <<sample_meal1, sample_meal2>>
    /\ combatants = <<sample_meal1, sample_meal2>>

\* C3: battle on a roster of zero or one fails with the insufficient-
\* combatants error, asks for no random value, reports nothing to the stats
\* sink and leaves the roster (and the store) unchanged.
C3_BattleNeedsTwo ==
    (LastIs("battle") /\ Len(last.pre) < 2) =>
        /\ last.outcome = InsufficientCombatantsError
        /\ Draws(last.trace) = 0
        /\ last.r = NoDraw
        /\ Reports(last.trace) = <<>>
        /\ db = last.predb
        /\ combatants = last.pre

\* battle was called with one combatant prepped, and failed.
C3_Witness ==
    /\ LastIs("battle") /\ Len(last.pre) = 1
    /\ last.outcome = InsufficientCombatantsError
    /\ combatants = last.pre

\* C4: after a successful battle the roster went from two to one, the one
\* left is the winner (the entity the win was reported for), and its name
\* is the name battle returned.
C4_WinnerRemains ==
    BattleOk =>
        /\ Len(last.pre) = 2
        /\ Len(combatants) = Len(last.pre) - 1
        /\ combatants[1].meal = last.ret
        /\ \E i \in 1..2 : combatants[1] = last.pre[i]
        /\ Reports(last.trace)[1] = EvStats(combatants[1].id, "win")

\* Meal 1 and Meal 2 fought, Meal 2 won and is alone in the roster.
C4_Witness ==
    /\ BattleOk
    /\ last.pre = <<sample_meal1, sample_meal2>>
    /\ last.ret = "Meal 2"
    /\ combatants = <<sample_meal2>>

\* The battle got as far as the decision (it may still have failed in the
\* stats sink afterwards).
BattleDecided == LastIs("battle") /\ Len(Decisions(last.trace)) = 1

\* gap > r for gap = |score(a) - score(b)| / 100 and r = <<num, den>>.
GapExceeds(a, b, r) ==
    Abs(get_battle_score(a) - get_battle_score(b)) * r[2] > 100 * r[1]

\* C5: with a the first and b the second roster entry and r the draw, a wins
\* and b loses if and only if |score(a) - score(b)| / 100 > r; otherwise
\* (gap = r and gap = 0 included) b wins and a loses.
C5_DecisionRule ==
    BattleDecided =>
        LET a == last.pre[1]
            b == last.pre[2]
            aWins == GapExceeds(a, b, last.r[1])
            winner == IF aWins THEN a ELSE b
            loser == IF aWins THEN b ELSE a
            dec == Decisions(last.trace)[1]
        IN  /\ dec.what = (IF aWins THEN "combatant_1" ELSE "combatant_2")
            /\ dec.id = winner.id
            /\ Reports(last.trace)[1] = EvStats(winner.id, "win")
            /\ last.outcome = Ok =>
                   /\ Reports(last.trace)[2] = EvStats(loser.id, "loss")
                   /\ combatants = <<winner>>
                   /\ last.ret = winner.meal

\* gap = r: Meal 1 (score 6) against Meal 2 (score 17) with r = 0.11, and
\* the second one, Meal 2, wins.
C5_Witness ==
    /\ BattleOk
    /\ last.pre = <<sample_meal1, sample_meal2>>
    /\ last.r = << <<11, 100>> >>
    /\ combatants = <<sample_meal2>>

C7_NoPartialMutation ==
    (last.op \in {"prep", "battle"} /\ last.outcome # Ok) =>
        combatants = last.pre /\ db = last.predb

\* C8: score(entity) = price * length(category) - penalty(tier), penalty
\* HIGH = 1, MED = 2, LOW = 3; entities that agree on price, category length
\* and tier have the same score; computing a score changes neither the
\* roster nor the stats.
C8_Penalty(tier) == IF tier = "HIGH" THEN 1 ELSE IF tier = "MED" THEN 2 ELSE 3

C8_ScoreFormula ==
    LastIs("score") =>
        /\ last.score = last.arg.price * Len(last.arg.cuisine)
                            - C8_Penalty(last.arg.difficulty)
        /\ \A m \in ScoreInputs :
               ( /\ m.price = last.arg.price
                 /\ Len(m.cuisine) = Len(last.arg.cuisine)
                 /\ m.difficulty = last.arg.difficulty )
               => get_battle_score(m) = last.score
        /\ combatants = last.pre
        /\ db = last.predb
        /\ Reports(last.trace) = <<>>

\* The score of Meal(1, "Meal 1", "Cuisine 1", 1, "LOW") was computed, with
\* two combatants prepped: 1 * 9 - 3 = 6.
C8_Witness ==
    /\ LastIs("score") /\ last.arg = sample_meal1 /\ last.score = 6
    /\ Len(combatants) = 2

\* The stores a second run of the same battle may meet.
C9_Stores ==
    [MealIds -> [deleted : BOOLEAN, battles : 0..1, wins : {0}]]

\* C9: a successful battle's winner, stats reports and final roster are
\* those of any other successful run from the same roster with the same
\* draw, whatever the store holds; and for A = Meal 1 (score 6) first and
\* B = Meal 2 (score 17) second the gap is 0.11, A wins when r = 0.10 and B
\* wins when r = 0.50.
C9_Determinism ==
    /\ BattleOk =>
           \A d \in C9_Stores :
               LET run == battle(last.pre, d, Returns(last.r[1]))
               IN  run.outcome = Ok =>
                       /\ run.ret = last.ret
                       /\ Reports(run.trace) = Reports(last.trace)
                       /\ run.combatants = combatants
    /\ (BattleOk /\ last.pre = <<sample_meal1, sample_meal2>>) =>
           /\ get_battle_score(last.pre[1]) = 6
           /\ get_battle_score(last.pre[2]) = 17
           /\ last.r = << <<1, 10>> >> =>
                  last.ret = "Meal 1" /\ combatants = <<sample_meal1>>
           /\ last.r = << <<1, 2>> >> =>
                  last.ret = "Meal 2" /\ combatants = <<sample_meal2>>

\* A then B prepped, r = 0.10: Meal 1 won.
C9_Witness ==
    /\ BattleOk
    /\ last.pre = <<sample_meal1, sample_meal2>>
    /\ last.r = << <<1, 10>> >>
    /\ last.ret = "Meal 1"

\* C10: clear never fails and leaves the roster empty from any size; a
\* second clear changes nothing; it asks for no random value and makes no
\* stats report.
C10_Clear ==
    LastIs("clear") =>
        /\ last.outcome = Ok
        /\ combatants = <<>>
        /\ clear_combatants(combatants) = combatants
        /\ Draws(last.trace) = 0
        /\ Reports(last.trace) = <<>>
        /\ db = last.predb

\* clear was called on a roster of two.
C10_Witness ==
    LastIs("clear") /\ Len(last.pre) = 2 /\ combatants = <<>>

\* C11: when the random source fails during battle on a roster of two, the
\* failure leaves battle as it is, the source was asked once only, nothing
\* was reported to the stats sink, and roster and store are as before.
C11_RandomFailure ==
    (LastIs("battle") /\ Draws(last.trace) >= 1 /\ last.r = NoDraw) =>
        /\ last.outcome = RandomSourceError
        /\ last.ret = NoValue
        /\ Len(last.pre) = 2
        /\ Draws(last.trace) = 1
        /\ Reports(last.trace) = <<>>
        /\ Decisions(last.trace) = <<>>
        /\ combatants = last.pre
        /\ db = last.predb

\* Meal 1 and Meal 2 were prepped and get_random() raised.
C11_Witness ==
    /\ LastIs("battle") /\ last.outcome = RandomSourceError
    /\ last.pre = <<sample_meal1, sample_meal2>>
    /\ combatants = <<sample_meal1, sample_meal2>>

\* C12: prep rejects on capacity only: an entity whose id is already in the
\* roster is accepted while the roster holds fewer than two, so the roster
\* may hold it twice; a prep fails only on a roster of two, and then with
\* the capacity error.
C12_CapacityOnly ==
    LastIs("prep") =>
        LET dup == \E i \in 1..Len(last.pre) : last.pre[i].id = last.arg.id
        IN  /\ (dup /\ Len(last.pre) < 2) =>
                   /\ last.outcome = Ok
                   /\ combatants = <<last.arg, last.arg>>
            /\ last.outcome # Ok =>
                   last.outcome = CapacityError /\ Len(last.pre) = 2

\* Meal 1 was prepped three times: the roster holds it twice and the third
\* prep met the capacity error.
C12_Witness ==
    /\ LastIs("prep") /\ last.arg = sample_meal1
    /\ last.outcome = CapacityError
    /\ combatants = <<sample_meal1, sample_meal1>>

\* The steps of a battle call, in order.
C13_Order ==
    <<"check", "score", "score", "random", "decide", "stats", "stats",
      "remove">>

\* C13: within a battle call the steps come in one fixed order: the size
\* test first, then the two scores, then one call of the random source,
\* then the decision, the win report, the loss report and last the removal
\* of the loser; a call that stops early has done a prefix of these.
C13_StepOrder ==
    LastIs("battle") =>
        LET t == last.trace
            n == Len(last.trace)
        IN  /\ n \in 1..Len(C13_Order)
            /\ \A i \in 1..n : t[i].ev = C13_Order[i]
            /\ Len(last.pre) < 2 => n = 1
            /\ Len(last.pre) >= 2 =>
                   /\ n >= 4
                   /\ t[2] = EvScore(last.pre[1])
                   /\ t[3] = EvScore(last.pre[2])
                   /\ Draws(t) = 1
            /\ n >= 6 => t[6].what = "win"
            /\ n >= 7 => t[7].what = "loss"
            /\ last.outcome = Ok <=> n = Len(C13_Order)
            /\ combatants # last.pre => n = Len(C13_Order)

\* A whole battle: Meal 2 (first) against Meal 1, r = 0.12, Meal 1 wins.
C13_Witness ==
    /\ BattleOk
    /\ last.r = << <<3, 25>> >>
    /\ last.trace = <<EvCheck, EvScore(sample_meal2), EvScore(sample_meal1),
                      EvRandom, EvDecide(sample_meal1, "combatant_2"),
                      EvStats(1, "win"), EvStats(2, "loss"),
                      EvRemove(sample_meal2)>>

\* One step of C14: a battle that succeeds leaves its winner alone at the
\* head of the roster; a prep that follows puts the newcomer behind it; and
\* a battle takes the head of the roster as combatant_1 and the entity
\* behind it as combatant_2.
C14_Step ==
    /\ (last'.op = "battle" /\ last'.outcome = Ok) =>
           /\ Len(combatants') = 1
           /\ combatants'[1].meal = last'.ret
           /\ \E i \in 1..2 : combatants'[1] = combatants[i]
    /\ (BattleOk /\ last'.op = "prep") =>
           /\ last'.outcome = Ok
           /\ combatants[1].meal = last.ret
           /\ combatants' = <<combatants[1], last'.arg>>
    /\ (last'.op = "battle" /\ Len(Decisions(last'.trace)) = 1) =>
           LET dec == Decisions(last'.trace)[1]
           IN  /\ last'.trace[2] = EvScore(combatants[1])
               /\ last'.trace[3] = EvScore(combatants[2])
               /\ dec.what = "combatant_1" => dec.id = combatants[1].id
               /\ dec.what = "combatant_2" => dec.id = combatants[2].id

\* C14: after a successful battle the winner is at the head of the roster
\* whichever place it held, so that after a further prep it is combatant a
\* and the newcomer combatant b of the next battle.
C14_WinnerFirst == [][C14_Step]_vars

\* Meal 2, second in the roster, beat Meal 1; Meal 3 was then prepped, and
\* in the battle that followed Meal 2 was combatant_1 and Meal 3 combatant_2.
C14_Witness ==
    /\ BattleDecided
    /\ last.pre = <<sample_meal2, sample_meal3>>
    /\ last.predb[2].wins = 1 /\ last.predb[1].battles = 1
    /\ last.predb[1].wins = 0 /\ last.predb[3].battles = 0
    /\ last.trace[2] = EvScore(sample_meal2)
    /\ last.trace[3] = EvScore(sample_meal3)

\* m with the scoring attributes (price, cuisine, difficulty) of n.
C15_WithAttributes(m, n) ==
    [m EXCEPT !.price = n.price, !.cuisine = n.cuisine,
              !.difficulty = n.difficulty]

\* C15: the winner depends on the place in the roster and on the size of
\* the score difference: with a and b exchanging their scoring attributes
\* and keeping their places, the same place wins for the same r; and when
\* |score(a) - score(b)| >= 100 the first entity wins for every draw.
C15_PositionalOutcome ==
    BattleDecided =>
        LET a == last.pre[1]
            b == last.pre[2]
            dec == Decisions(last.trace)[1]
            exchanged == <<C15_WithAttributes(a, b), C15_WithAttributes(b, a)>>
            again == battle(exchanged, last.predb, Returns(last.r[1]))
            dec2 == Decisions(again.trace)[1]
        IN  /\ dec2.what = dec.what
            /\ dec2.id = dec.id
            /\ Abs(get_battle_score(a) - get_battle_score(b)) >= 100 =>
                   /\ dec.what = "combatant_1"
                   /\ dec.id = a.id
                   /\ \A r \in RandomDraws :
                          Decisions(battle(last.pre, last.predb,
                                           Returns(r)).trace)[1].what
                              = "combatant_1"

\* Meal 1 (score 6) first, Meal 3 (score 118) second, r = 0.99: Meal 1 won.
C15_Witness ==
    /\ BattleOk
    /\ last.pre = <<sample_meal1, sample_meal3>>
    /\ get_battle_score(sample_meal1) < get_battle_score(sample_meal3)
    /\ last.r = << <<99, 100>> >>
    /\ last.ret = "Meal 1"

====
